---- MODULE Spec2Model ----
(***************************************************************************)
(* Model of the iCaRL incremental learner (inclearn/models/icarl.py) and   *)
(* of the loss check of inclearn/lib/utils.py.                             *)
(*                                                                         *)
(* Embeddings are one-dimensional (out_dim = 1) with integer coordinates,  *)
(* so that every normalisation and every distance comparison of the code   *)
(* is computed exactly: the L2 normalisation of a one-element vector is    *)
(* its sign, and distances that involve a column norm sqrt(Q) are compared *)
(* through their squares.  The value NaN stands for the float NaN.         *)
(***************************************************************************)
EXTENDS Integers, Sequences, FiniteSets, TLC

\* ------------------------------------------------------------------ bounds
MaxIncrement == 2    \* args["increment"] and the driver's task_size range over 1..MaxIncrement
MaxMemory == 4       \* args["memory_size"] ranges over 0..MaxMemory
MaxTasks == 2        \* tasks 0..MaxTasks-1 are run
PoolSize == 2        \* candidate samples per class
MaxEpochs == 1       \* args["epochs"]; an epoch has one training batch
EvalSize == 1        \* samples of the evaluation loader
MaxClasses == 4      \* classes of the dataset: the driver has no task beyond them
MaxProxies == 2      \* weight_generation["proxy_per_class"] ranges over 1..MaxProxies

\* ------------------------------------------------------- values and helpers
NaN == 99            \* the float NaN (0/0 of line 331); no other value is 99
None == << >>        \* Python None for _means and _previous_preds

FeatVals == {-1, 1, 2}               \* raw embedding coordinates
\* a loss value: exactly 0, finite and positive, or one of the bad kinds
LossVals == {"zero", "finite", "negative", "nan", "posinf"}

\* A classifier row is a symbolic value <<t, u>>: the random value drawn by
\* kaiming_normal_ when the head of task t was created (t = -1 for the head
\* of __init__), after u optimizer steps.  Two draws never coincide.
KaimingNormal(n, t) == [c \in 1..n |-> <<t, 0>>]
OptimizerStep(weight) == [c \in 1..Len(weight) |-> <<weight[c][1], weight[c][2] + 1>>]

Range(s) == {s[j] : j \in DOMAIN s}

RECURSIVE SumSeq(_)
SumSeq(s) == IF s = << >> THEN 0 ELSE Head(s) + SumSeq(Tail(s))

Min(a, b) == IF a < b THEN a ELSE b

\* Python slice s[:n] for n >= 0
Take(s, n) == SubSeq(s, 1, Min(n, Len(s)))

Sign(x) == IF x > 0 THEN 1 ELSE IF x < 0 THEN -1 ELSE 0

\* F.normalize of a one-element vector: x / max(|x|, eps); NaN stays NaN
Normalize(x) == IF x = NaN THEN NaN ELSE Sign(x)

\* candidate identifiers of a class, in identifier order
Pool(c) == [j \in 1..PoolSize |-> c * PoolSize + (j - 1)]

Reverse(s) == [j \in 1..Len(s) |-> s[Len(s) + 1 - j]]

\* the two delivery orders of the data loader that the model distinguishes
Orders == {"asc", "desc"}
Deliver(s, order) == IF order = "asc" THEN s ELSE Reverse(s)

\* torch.argsort does not fix the order of equal elements: the build either
\* keeps them in position order or reverses them
TiePolicies == {"first", "last"}

\* ------------------------------------------------------------------ _dist
\* a signed difference instead of its square
DistSigned(a, b) == IF a = NaN \/ b = NaN THEN NaN ELSE a - b

\* ICarl._dist: squared Euclidean distance; NaN propagates
Dist(a, b) == IF a = NaN \/ b = NaN THEN NaN ELSE (a - b) * (a - b)

\* torch argmin over a 1-based sequence of distances: a NaN wins over every
\* number, and among equal winners the first one is returned (0-based)
RECURSIVE ArgMinFrom(_, _, _)
ArgMinFrom(d, j, best) ==
    IF j > Len(d) THEN best - 1
    ELSE IF d[best] # NaN /\ (d[j] = NaN \/ d[j] < d[best])
         THEN ArgMinFrom(d, j + 1, j)
         ELSE ArgMinFrom(d, j + 1, best)

ArgMinLast(d) ==
    LET n == Len(d)
        RevIdx == ArgMinFrom(Reverse(d), 2, 1)
    IN  n - 1 - RevIdx

ArgMin(d) == ArgMinFrom(d, 2, 1)

\* ICarl._get_closest for one feature: centers is the 1-based sequence of
\* class means (class c at position c + 1)
GetClosest(centers, feature) ==
    ArgMin([c \in 1..Len(centers) |-> Dist(centers[c], feature)])

\* --------------------------------------------------------------- herding
\* X < Y * sqrt(Q) for integers X, Y and Q > 0
SurdLess(X, Y, Q) ==
    IF Y = 0 THEN X < 0
    ELSE IF Y > 0 THEN X < 0 \/ X * X < Y * Y * Q
    ELSE X < 0 /\ X * X > Y * Y * Q

\* distances[j] < distances[l] of line 319, where
\*   tmp = F.normalize((features + examplars_mean) / (i + 1), dim=0)
\* divides the column a = features + examplars_mean by its norm sqrt(Q)
\* (the factor 1/(i+1) cancels; a zero column stays zero) and
\*   distances = |class_mean - tmp|
HerdLess(class_mean, Q, aj, al) ==
    IF Q = 0 THEN FALSE
    ELSE SurdLess(aj * aj - al * al,
                  2 * class_mean * (aj - al), Q)

\* a descending sort
SortsDescending(dl, p, q, tie) ==
    \/ dl[q][p]
    \/ /\ ~dl[p][q]
       /\ IF tie = "first" THEN p < q ELSE p > q

\* position p comes before position q in distances.argsort()
SortsBefore(dl, p, q, tie) ==
    \/ dl[p][q]
    \/ /\ ~dl[q][p]
       /\ IF tie = "first" THEN p < q ELSE p > q

\* distances.argsort(): the positions 1..n in ascending order of distance
RECURSIVE ArgsortFrom(_, _, _)
ArgsortFrom(dl, rest, tie) ==
    IF rest = {} THEN << >>
    ELSE LET p == CHOOSE x \in rest :
                     \A y \in rest \ {x} : SortsBefore(dl, x, y, tie)
         IN  <<p>> \o ArgsortFrom(dl, rest \ {p}, tie)

Argsort(class_mean, a, tie) ==
    LET n == Len(a)
        Q == SumSeq([j \in 1..n |-> a[j] * a[j]])
        dl == [p \in 1..n |-> [q \in 1..n |->
                  HerdLess(class_mean, Q, a[p], a[q])]]
    IN  ArgsortFrom(dl, 1..n, tie)

\* the first position of idxes_winner, chosen or not
FirstAny(idxes_winner, idxes, examplars_idxes) ==
    IF idxes_winner = << >> THEN 0 ELSE Head(idxes_winner)

\* lines 322-329: the first position of idxes_winner whose identifier is
\* not yet an exemplar; 0 when there is none
RECURSIVE FirstNew(_, _, _)
FirstNew(idxes_winner, idxes, examplars_idxes) ==
    IF idxes_winner = << >> THEN 0
    ELSE IF idxes[Head(idxes_winner)] \in Range(examplars_idxes)
         THEN FirstNew(Tail(idxes_winner), idxes, examplars_idxes)
         ELSE Head(idxes_winner)

\* lines 314-329: the greedy loop, from iteration i on (ex_idxes is
\* examplars_idxes, ex_mean is examplars_mean)
RECURSIVE HerdLoop(_, _, _, _, _, _, _, _)
HerdLoop(features, idxes, class_mean, n_iter, i, ex_idxes, ex_mean, tie) ==
    IF i >= n_iter
    THEN [idxes |-> ex_idxes, mean |-> ex_mean]
    ELSE LET a == [j \in 1..Len(features) |-> features[j] + ex_mean]
             idxes_winner == Argsort(class_mean, a, tie)
             w == FirstNew(idxes_winner, idxes, ex_idxes)
         IN  IF w = 0
             THEN HerdLoop(features, idxes, class_mean, n_iter, i + 1,
                           ex_idxes, ex_mean, tie)
             ELSE HerdLoop(features, idxes, class_mean, n_iter, i + 1,
                           Append(ex_idxes, idxes[w]),
                           ex_mean + features[w], tie)

\* lines 305-332 for one class of the current task: features and idxes are
\* what _extract_features returns (delivery order), quota is self._m.
\* Returns the exemplar identifiers and the stored class mean.
HerdClass(features, idxes, quota, tie) ==
    LET class_mean == Normalize(SumSeq(features))
        r == HerdLoop(features, idxes, class_mean,
                      Min(quota, Len(features)), 0, << >>, 0, tie)
    IN  [idxes |-> r.idxes,
         mean |-> IF Len(r.idxes) = 0 THEN NaN ELSE Normalize(r.mean)]

\* ------------------------------------------------------------------ state
VARIABLES
    k,                  \* self._k = self._memory_size
    task_size,          \* self._task_size, equal to args["increment"]
    val_loader,         \* the val_loader argument of the before_task and
                        \* train_task calls of the task being trained is a
                        \* loader (FALSE when it is None, and outside them)
    task,               \* self._task; -1 before the first set_task_info
    n_classes,          \* self._n_classes
    classifier,         \* rows of self._classifier.weight (class c at c + 1)
    previous_preds,     \* self._previous_preds: None or the cached snapshot
    previous_preds_val, \* self._previous_preds_val
    examplars,          \* self._examplars: class id -> identifiers
    examplars_keys,     \* the keys of the dict self._examplars, in its order
    means,              \* self._means: None or the stacked class means
    pc,                 \* the driver's position in the task lifecycle
    epoch,              \* epoch counter of _train_task
    class_idx,          \* loop variable of _build_examplars
    means_acc,          \* the local list `means` of _build_examplars
    herd,               \* input and result of one herding selection taken alone
    growth,             \* input and result of one add_new_weights call taken alone
    last_batch,         \* what the batch iteration just executed did
    eval_status,        \* outcome of the _eval_task call just made
    ypred,              \* predictions that call returned
    queries,            \* normalised features that call classified
    memory_indexes      \* what the get_memory_indexes call just made returned

cfg == <<k, task_size>>
net == <<classifier, previous_preds, previous_preds_val>>
mem == <<examplars, examplars_keys, means>>
loopv == <<class_idx, means_acc>>
evalv == <<eval_status, ypred, queries, memory_indexes>>
alone == <<herd, growth>>
vars == <<cfg, val_loader, task, n_classes, net, mem, pc, epoch, loopv,
          alone, last_batch, evalv>>

\* last_batch and evalv describe the step just taken; every other step
\* clears them.  herd is used by HerdSpec only.
NoHerd == [features |-> << >>, idxes |-> << >>, quota |-> 0, tie |-> "first",
           ran |-> FALSE, ex |-> << >>]

NoBatch == [kind |-> "none", clf |-> "zero", distil |-> "zero",
            cache |-> "none", clf_cols |-> {}, pdb |-> FALSE,
            signal |-> "none", backward |-> FALSE, step |-> FALSE]

NotCalled == [called |-> FALSE, value |-> << >>]

NoGrowth == [weight_generation |-> [form |-> "str", type |-> "basic",
                                    proxy_per_class |-> 1],
             current_nb_classes |-> 0, task_size |-> 0, ran |-> FALSE,
             error |-> "none", calls |-> << >>]

NoEval ==
    /\ UNCHANGED alone
    /\ eval_status' = "not_run"
    /\ ypred' = << >>
    /\ queries' = << >>
    /\ memory_indexes' = NotCalled

\* ICarl.__init__ (lines 16-43)
Init ==
    /\ k \in 0..MaxMemory
    /\ task_size \in 1..MaxIncrement
    /\ val_loader = FALSE
    /\ task = -1
    /\ n_classes = task_size
    /\ classifier = KaimingNormal(task_size, -1)
    /\ previous_preds = None
    /\ previous_preds_val = None
    /\ examplars = [c \in {} |-> << >>]
    /\ examplars_keys = << >>
    /\ means = None
    /\ pc = "next"
    /\ epoch = 0
    /\ class_idx = 0
    /\ means_acc = << >>
    /\ herd = NoHerd
    /\ growth = NoGrowth
    /\ last_batch = NoBatch
    /\ eval_status = "not_run"
    /\ ypred = << >>
    /\ queries = << >>
    /\ memory_indexes = NotCalled

\* a quota rounded up instead of down
MCeil(memory, n) == (memory + n - 1) \div n

\* ICarl._m (lines 229-232)
M(memory, n) == memory \div n

\* IncrementalLearner._new_task_index
NewTaskIndex == task * task_size

\* a driver that may start the next task as soon as training has ended
SetTaskInfoEarly ==
    /\ pc \in {"next", "after", "after_old", "after_new", "eval"}
    /\ task + 1 < MaxTasks
    /\ (task + 2) * task_size <= MaxClasses
    /\ task' = task + 1
    /\ pc' = "before"
    /\ last_batch' = NoBatch
    /\ NoEval
    /\ UNCHANGED <<cfg, val_loader, n_classes, net, mem, epoch, loopv>>

\* IncrementalLearner.set_task_info, called by the driver before each task;
\* the driver starts a task only while the dataset has classes left for it
SetTaskInfo ==
    /\ pc = "next"
    /\ task + 1 < MaxTasks
    /\ (task + 2) * task_size <= MaxClasses
    /\ task' = task + 1
    /\ pc' = "before"
    /\ last_batch' = NoBatch
    /\ NoEval
    /\ UNCHANGED <<cfg, val_loader, n_classes, net, mem, epoch, loopv>>

\* ----------------------------------------------------------- before_task
\* ICarl._compute_predictions (lines 195-204): the cache holds one column
\* per output of the model that computed it
Sigmoid(x) == <<"sigmoid", x>>

\* a cache computed by the head as it is after the growth
ComputePredictionsGrown(head) ==
    [c \in 1..(Len(head) + task_size) |->
        Sigmoid(IF c <= Len(head) THEN head[c] ELSE <<task, 0>>)]

ComputePredictions(head) == [c \in 1..Len(head) |-> Sigmoid(head[c])]

\* the new head of _add_n_classes keeps none of the old rows
AddNClassesFresh(weight, fresh) == fresh

\* a new head that has the outputs of the new classes only
AddNClassesNewOnly(weight, fresh) ==
    SubSeq(fresh, Len(weight) + 1, Len(fresh))

\* ICarl._add_n_classes (lines 241-247): a freshly initialised head of
\* Len(fresh) rows whose first Len(weight) rows are overwritten by weight
AddNClasses(weight, fresh) ==
    [c \in 1..Len(fresh) |-> IF c <= Len(weight) THEN weight[c] ELSE fresh[c]]

\* ICarl._before_task (lines 54-76)
BeforeTask ==
    /\ pc = "before"
    /\ val_loader' \in BOOLEAN
    /\ IF task = 0
       THEN /\ previous_preds' = None
            /\ UNCHANGED <<previous_preds_val, n_classes, classifier>>
       ELSE /\ previous_preds' = ComputePredictions(classifier)
            /\ previous_preds_val' =
                   IF val_loader' THEN ComputePredictions(classifier)
                   ELSE previous_preds_val
            /\ n_classes' = n_classes + task_size
            /\ classifier' = AddNClasses(classifier,
                                 KaimingNormal(n_classes + task_size, task))
    /\ pc' = "train"
    /\ epoch' = 0
    /\ last_batch' = NoBatch
    /\ NoEval
    /\ UNCHANGED <<cfg, task, mem, loopv>>

\* ------------------------------------------------------------ train_task
\* utils._check_loss (lines 20-21): not NaN and >= 0, so +inf passes
CheckLoss(loss) == loss \in {"zero", "finite", "posinf"}

\* a loss composer that distils on every task
ComputeLossAlways(t, new_task_index, n_cols, train) ==
    [clf_cols |-> new_task_index..(n_cols - 1),
     distil |-> "bce",
     distil_cols |-> 0..(new_task_index - 1),
     cache |-> IF train THEN "train" ELSE "val"]

\* ICarl._compute_loss (lines 176-193): which logit columns enter the
\* classification loss, whether a distillation loss is computed (and over
\* which columns) and which prediction cache is read
ComputeLoss(t, new_task_index, n_cols, train) ==
    IF t = 0
    THEN [clf_cols |-> 0..(n_cols - 1), distil |-> "zero",
          distil_cols |-> {}, cache |-> "none"]
    ELSE [clf_cols |-> new_task_index..(n_cols - 1),
          distil |-> "bce",
          distil_cols |-> 0..(new_task_index - 1),
          cache |-> IF train THEN "train" ELSE "val"]

\* the loss pairs a batch can produce: the distillation loss is the zero
\* tensor when none is computed, and at most one of the two losses is off
BatchLosses(distil) ==
    IF distil = "zero"
    THEN {<<c, "zero">> : c \in LossVals \ {"zero"}}
    ELSE {<<c, "finite">> : c \in LossVals \ {"zero"}}
         \cup {<<"finite", d>> : d \in LossVals \ {"zero"}}

\* position after the batches of one epoch are done (lines 84, 123-124)
EndOfEpoch ==
    /\ epoch' = epoch + 1
    /\ pc' = IF epoch + 1 < MaxEpochs THEN "train" ELSE "after"

\* one iteration of the batch loop of _train_task (lines 90-121).  A failed
\* check stops in pdb.set_trace(); the operator either continues, and the
\* batch is trained on, or quits the debugger, which aborts train_task.
TrainBatch ==
    /\ pc = "train"
    /\ epoch < MaxEpochs
    /\ LET r == ComputeLoss(task, NewTaskIndex, n_classes, TRUE)
       IN  \E losses \in BatchLosses(r.distil), resume \in {"continue", "quit"} :
             LET clf_loss == losses[1]
                 distil_loss == losses[2]
                 bad == ~CheckLoss(clf_loss) \/ ~CheckLoss(distil_loss)
                 quit == bad /\ resume = "quit"
             IN  /\ ~bad => resume = "continue"
                 /\ last_batch' = [kind |-> "train", clf |-> clf_loss,
                                   distil |-> distil_loss, cache |-> r.cache,
                                   clf_cols |-> r.clf_cols, pdb |-> bad,
                                   signal |-> IF quit THEN "BdbQuit"
                                              ELSE "none",
                                   backward |-> ~quit, step |-> ~quit]
                 /\ IF quit
                    THEN /\ pc' = "failed"
                         /\ UNCHANGED <<classifier, epoch>>
                    ELSE /\ classifier' = OptimizerStep(classifier)
                         /\ IF val_loader
                            THEN pc' = "val" /\ UNCHANGED epoch
                            ELSE EndOfEpoch
    /\ NoEval
    /\ UNCHANGED <<cfg, val_loader, task, n_classes, previous_preds,
                   previous_preds_val, mem, loopv>>

\* one iteration of the loop of _compute_val_loss (lines 153-172), run at
\* the end of an epoch when there is a validation loader
ValBatch ==
    /\ pc = "val"
    /\ LET r == ComputeLoss(task, NewTaskIndex, n_classes, FALSE)
       IN  \E losses \in BatchLosses(r.distil), resume \in {"continue", "quit"} :
             LET clf_loss == losses[1]
                 distil_loss == losses[2]
                 bad == ~CheckLoss(clf_loss) \/ ~CheckLoss(distil_loss)
                 quit == bad /\ resume = "quit"
             IN  /\ ~bad => resume = "continue"
                 /\ last_batch' = [kind |-> "val", clf |-> clf_loss,
                                   distil |-> distil_loss, cache |-> r.cache,
                                   clf_cols |-> r.clf_cols, pdb |-> bad,
                                   signal |-> IF quit THEN "BdbQuit"
                                              ELSE "none",
                                   backward |-> FALSE, step |-> FALSE]
                 /\ IF quit
                    THEN pc' = "failed" /\ UNCHANGED epoch
                    ELSE EndOfEpoch
    /\ NoEval
    /\ UNCHANGED <<cfg, val_loader, task, n_classes, net, mem, loopv>>

\* ------------------------------------------------------------ after_task
\* a reduction that keeps every exemplar
ReduceKeepAll(ex, quota) == ex

\* a reduction that keeps the last quota entries of every class
ReduceKeepLast(ex, quota) ==
    [c \in DOMAIN ex |->
        SubSeq(ex[c], Len(ex[c]) - Min(quota, Len(ex[c])) + 1, Len(ex[c]))]

\* ICarl._reduce_examplars (lines 346-349)
ReduceExamplars(ex, quota) ==
    [c \in DOMAIN ex |-> Take(ex[c], quota)]

\* first half of ICarl._after_task (line 133) and the loop bounds of
\* _build_examplars (lines 293-297, 302-304)
AfterReduce ==
    /\ pc = "after"
    /\ examplars' = ReduceExamplars(examplars, M(k, n_classes))
    /\ means_acc' = << >>
    /\ class_idx' = 0
    /\ pc' = IF 0 < task * task_size THEN "after_old" ELSE "after_new"
    /\ val_loader' = FALSE
    /\ last_batch' = NoBatch
    /\ NoEval
    /\ UNCHANGED <<cfg, task, n_classes, net, examplars_keys, means, epoch>>

\* features of the samples ids under an extractor, in loader order
Features(extractor, ids) == [j \in 1..Len(ids) |-> extractor[ids[j]]]

\* a loop over the classes of earlier tasks that computes no mean
AfterOldNoMean ==
    /\ pc = "after_old"
    /\ class_idx < task * task_size
    /\ IF examplars[class_idx] = << >>
       THEN /\ pc' = "failed"
            /\ UNCHANGED <<class_idx, means_acc>>
       ELSE /\ UNCHANGED means_acc
            /\ class_idx' = class_idx + 1
            /\ pc' = IF class_idx + 1 < task * task_size THEN "after_old"
                     ELSE "after_new"
    /\ last_batch' = NoBatch
    /\ NoEval
    /\ UNCHANGED <<cfg, val_loader, task, n_classes, net, mem, epoch>>

\* one iteration of the loop over the classes of earlier tasks (lines
\* 297-300).  _extract_features calls torch.cat on the list of batch
\* features, which raises on an empty exemplar set.
AfterOld ==
    /\ pc = "after_old"
    /\ class_idx < task * task_size
    /\ IF examplars[class_idx] = << >>
       THEN /\ pc' = "failed"
            /\ UNCHANGED <<class_idx, means_acc>>
       ELSE /\ \E extractor \in [Range(examplars[class_idx]) -> FeatVals] :
                 means_acc' = Append(means_acc,
                     Normalize(SumSeq(Features(extractor,
                                               examplars[class_idx]))))
            /\ class_idx' = class_idx + 1
            /\ pc' = IF class_idx + 1 < task * task_size THEN "after_old"
                     ELSE "after_new"
    /\ last_batch' = NoBatch
    /\ NoEval
    /\ UNCHANGED <<cfg, val_loader, task, n_classes, net, mem, epoch>>

\* the keys of a dict after d[key] = value (lines 332, 349): a new key goes
\* last, a key already present keeps its place
SetItem(keys, key) ==
    IF key \in Range(keys) THEN keys ELSE Append(keys, key)

\* what one iteration of the loop over the new classes depends on: the class,
\* the extractor, the delivery order, the quota and the order argsort gives
\* equal distances
HerdInputs ==
    UNION {{<<c, extractor, order, quota, tie>> :
               extractor \in [Range(Pool(c)) -> FeatVals], order \in Orders,
               quota \in 0..MaxMemory, tie \in TiePolicies} :
           c \in 0..(MaxClasses - 1)}

\* lines 305-332 for each of these inputs, computed once (@@ << >> makes the
\* function an explicit one)
HerdTable ==
    [x \in HerdInputs |->
        LET idxes == Deliver(Pool(x[1]), x[3])
        IN  HerdClass(Features(x[2], idxes), idxes, x[4], x[5])] @@ << >>

\* one iteration of the loop over the classes of the current task (lines
\* 304-332), and after the last one the assignment of line 334
AfterNew ==
    /\ pc = "after_new"
    /\ class_idx < n_classes
    /\ \E extractor \in [Range(Pool(class_idx)) -> FeatVals],
          order \in Orders, tie \in TiePolicies :
         LET r == HerdTable[<<class_idx, extractor, order,
                              M(k, n_classes), tie>>]
         IN  /\ examplars' =
                    [c \in DOMAIN examplars \cup {class_idx} |->
                        IF c = class_idx THEN r.idxes ELSE examplars[c]]
             /\ examplars_keys' = SetItem(examplars_keys, class_idx)
             /\ means_acc' = Append(means_acc, r.mean)
             /\ IF class_idx + 1 < n_classes
                THEN /\ pc' = "after_new"
                     /\ UNCHANGED means
                ELSE /\ pc' = "eval"
                     /\ means' = Append(means_acc, r.mean)
    /\ class_idx' = class_idx + 1
    /\ last_batch' = NoBatch
    /\ eval_status' = "not_run"
    /\ ypred' = << >>
    /\ queries' = << >>
    /\ memory_indexes' = NotCalled
    /\ UNCHANGED <<cfg, val_loader, task, n_classes, net, epoch, alone>>

\* ------------------------------------------------------------- eval_task
\* a classifier that does not look at the state of the means
ClassifyUnchecked(centers, n, features) ==
    [status |-> "ok",
     ypred |-> [j \in 1..Len(features) |->
                   IF centers = None THEN 0
                   ELSE GetClosest(centers, Normalize(features[j]))]]

\* a classifier without the check of the number of means
ClassifyNoCount(centers, n, features) ==
    IF centers = None
    THEN [status |-> "ValueError_no_means", ypred |-> << >>]
    ELSE [status |-> "ok",
          ypred |-> [j \in 1..Len(features) |->
                        GetClosest(centers, Normalize(features[j]))]]

\* ICarl._classify (lines 206-227): the two ValueErrors, then the nearest
\* mean of every normalised feature
Classify(centers, n, features) ==
    IF centers = None
    THEN [status |-> "ValueError_no_means", ypred |-> << >>]
    ELSE IF Len(centers) # n
    THEN [status |-> "ValueError_inconsistent", ypred |-> << >>]
    ELSE [status |-> "ok",
          ypred |-> [j \in 1..Len(features) |->
                        GetClosest(centers, Normalize(features[j]))]]

\* ICarl._eval_task (lines 136-140).  Besides its place at the end of a
\* task the caller may invoke it between any two lifecycle calls.
EvalTask ==
    /\ pc \in {"before", "after", "eval", "failed"} \/ (pc = "train" /\ epoch = 0)
    /\ \E features \in [1..EvalSize -> FeatVals] :
         LET r == Classify(means, n_classes, features)
         IN  /\ eval_status' = r.status
             /\ ypred' = r.ypred
             /\ queries' = IF r.status = "ok"
                           THEN [j \in 1..EvalSize |-> Normalize(features[j])]
                           ELSE << >>
    /\ pc' = IF pc = "eval" THEN "next" ELSE pc
    /\ UNCHANGED alone
    /\ memory_indexes' = NotCalled
    /\ last_batch' = NoBatch
    /\ UNCHANGED <<cfg, val_loader, task, n_classes, net, mem, epoch, loopv>>

\* --------------------------------------------------- get_memory_indexes
RECURSIVE ExamplarsArrayDescending(_, _)
RECURSIVE ExamplarsArray(_, _)
\* an accessor that lists the classes from the highest id down
ExamplarsArrayDescending(keys, ex) ==
    IF keys = << >> THEN << >>
    ELSE ExamplarsArrayDescending(Tail(keys), ex) \o ex[Head(keys)]

\* the property ICarl.examplars (lines 336-344): the identifiers of every
\* class, the classes in the order of the dict, each in its stored order
ExamplarsArray(keys, ex) ==
    IF keys = << >> THEN << >>
    ELSE ex[Head(keys)] \o ExamplarsArray(Tail(keys), ex)

\* an accessor that hands the identifiers over and empties the memory
GetMemoryIndexesDraining ==
    /\ pc \in {"eval", "next"}
    /\ task >= 0
    /\ memory_indexes' = [called |-> TRUE,
                          value |-> ExamplarsArray(examplars_keys, examplars)]
    /\ examplars' = [c \in DOMAIN examplars |-> << >>]
    /\ UNCHANGED <<cfg, val_loader, task, n_classes, net, examplars_keys,
                   means, pc, epoch, loopv, alone, last_batch, eval_status,
                   ypred, queries>>

\* ICarl.get_memory_indexes (lines 142-143), which the caller may invoke
\* once after_task is done
GetMemoryIndexes ==
    /\ pc \in {"eval", "next"}
    /\ task >= 0
    /\ memory_indexes' = [called |-> TRUE,
                          value |-> ExamplarsArray(examplars_keys, examplars)]
    /\ UNCHANGED <<cfg, val_loader, task, n_classes, net, mem, pc, epoch,
                   loopv, alone, last_batch, eval_status, ypred, queries>>

Next ==
    \/ SetTaskInfo
    \/ BeforeTask
    \/ TrainBatch
    \/ ValBatch
    \/ AfterReduce
    \/ AfterOld
    \/ AfterNew
    \/ EvalTask
    \/ GetMemoryIndexes

Spec == Init /\ [][Next]_vars

\* ------------------------------------------------- herding taken alone
\* The selection of lines 305-332 as a function of what _extract_features
\* returns for one class (n candidates, their features in delivery order),
\* of the quota self._m and of the order argsort gives equal distances.
HerdInit ==
    /\ k = 0 /\ task_size = 1 /\ val_loader = FALSE /\ task = -1
    /\ n_classes = 1
    /\ classifier = KaimingNormal(1, -1)
    /\ previous_preds = None /\ previous_preds_val = None
    /\ examplars = [c \in {} |-> << >>] /\ examplars_keys = << >>
    /\ means = None
    /\ pc = "herd" /\ epoch = 0 /\ class_idx = 0 /\ means_acc = << >>
    /\ last_batch = NoBatch
    /\ eval_status = "not_run" /\ ypred = << >> /\ queries = << >>
    /\ memory_indexes = NotCalled
    /\ growth = NoGrowth
    /\ \E n \in 1..PoolSize, order \in Orders, tie \in TiePolicies,
          quota \in 0..MaxMemory :
         \E extractor \in [0..(n - 1) -> FeatVals] :
            LET idxes == Deliver([j \in 1..n |-> j - 1], order)
            IN  herd = [features |-> Features(extractor, idxes),
                        idxes |-> idxes, quota |-> quota, tie |-> tie,
                        ran |-> FALSE, ex |-> << >>]

HerdRun ==
    /\ pc = "herd"
    /\ ~herd.ran
    /\ herd' = [herd EXCEPT
                  !.ran = TRUE,
                  !.ex = HerdClass(herd.features, herd.idxes, herd.quota,
                                   herd.tie).idxes]
    /\ UNCHANGED <<cfg, val_loader, task, n_classes, net, mem, pc, epoch,
                   loopv, growth, last_batch, evalv>>

HerdNext == HerdRun

HerdSpec == HerdInit /\ [][HerdNext]_vars

\* ------------------------------------------- add_new_weights taken alone
\* values of weight_generation["type"]; the comparison is case sensitive
WeightTypes == {"imprinted", "embedding", "basic", "Basic", "random"}

\* the growth operations of the network, as add_new_weights calls them
Call(op, arg) == [op |-> op, arg |-> arg]

\* a head growth that falls back on add_classes for an unknown type
AddNewWeightsFallback(weight_generation, current_nb_classes, n_new) ==
    IF weight_generation.type = "imprinted"
    THEN [error |-> "none",
          calls |-> <<Call("add_imprinted_classes",
                           [j \in 1..n_new |-> current_nb_classes + j - 1])>>]
    ELSE IF weight_generation.type = "embedding"
    THEN [error |-> "none",
          calls |-> <<Call("add_custom_weights",
                           n_new * weight_generation.proxy_per_class)>>]
    ELSE [error |-> "none", calls |-> <<Call("add_classes", n_new)>>]

\* utils.add_new_weights (lines 102-138).  A str weight_generation is
\* wrapped in a dict (103-105), which leaves proxy_per_class at its default
\* of 1.  The result is the error raised, if any, and the growth operations
\* called on the network: add_imprinted_classes with the list of new class
\* ids, add_custom_weights with one row per class and proxy, add_classes
\* with task_size (n_new).
AddNewWeights(weight_generation, current_nb_classes, n_new) ==
    LET proxies == IF weight_generation.form = "str" THEN 1
                   ELSE weight_generation.proxy_per_class
    IN  IF weight_generation.type = "imprinted"
        THEN [error |-> "none",
              calls |-> <<Call("add_imprinted_classes",
                               [j \in 1..n_new |->
                                   current_nb_classes + j - 1])>>]
        ELSE IF weight_generation.type = "embedding"
        THEN [error |-> "none",
              calls |-> <<Call("add_custom_weights", n_new * proxies)>>]
        ELSE IF weight_generation.type = "basic"
        THEN [error |-> "none", calls |-> <<Call("add_classes", n_new)>>]
        ELSE [error |-> "ValueError", calls |-> << >>]

GrowthInit ==
    /\ k = 0 /\ task_size = 1 /\ val_loader = FALSE /\ task = -1
    /\ n_classes = 1
    /\ classifier = KaimingNormal(1, -1)
    /\ previous_preds = None /\ previous_preds_val = None
    /\ examplars = [c \in {} |-> << >>] /\ examplars_keys = << >>
    /\ means = None
    /\ pc = "growth" /\ epoch = 0 /\ class_idx = 0 /\ means_acc = << >>
    /\ last_batch = NoBatch
    /\ eval_status = "not_run" /\ ypred = << >> /\ queries = << >>
    /\ memory_indexes = NotCalled
    /\ herd = NoHerd
    /\ \E form \in {"str", "dict"}, type \in WeightTypes,
          proxy_per_class \in 1..MaxProxies,
          current_nb_classes \in 1..MaxClasses, size \in 1..MaxIncrement :
         growth = [weight_generation |->
                       [form |-> form, type |-> type,
                        proxy_per_class |-> IF form = "str" THEN 1
                                            ELSE proxy_per_class],
                   current_nb_classes |-> current_nb_classes,
                   task_size |-> size, ran |-> FALSE,
                   error |-> "none", calls |-> << >>]

GrowthRun ==
    /\ pc = "growth"
    /\ ~growth.ran
    /\ LET r == AddNewWeights(growth.weight_generation,
                              growth.current_nb_classes, growth.task_size)
       IN  growth' = [growth EXCEPT !.ran = TRUE, !.error = r.error,
                                    !.calls = r.calls]
    /\ UNCHANGED <<cfg, val_loader, task, n_classes, net, mem, pc, epoch,
                   loopv, herd, last_batch, evalv>>

GrowthNext == GrowthRun

GrowthSpec == GrowthInit /\ [][GrowthNext]_vars

TotalExamplars ==
    SumSeq([j \in 1..Cardinality(DOMAIN examplars) |->
               Len(examplars[CHOOSE c \in DOMAIN examplars :
                       Cardinality({d \in DOMAIN examplars : d < c}) = j - 1])])

\* ------------------------------------------------------------ properties
Classes == 0..(n_classes - 1)

\* classes of the current task whose exemplar set the rebuild has written
BuiltNow ==
    IF pc = "after_new" THEN {c \in DOMAIN examplars : task * task_size <= c}
    ELSE IF pc \in {"eval", "next"} /\ task >= 0
         THEN (task * task_size)..(n_classes - 1)
    ELSE {}

NoRepeat(s) == \A i, j \in DOMAIN s : i # j => s[i] # s[j]

\* C1: in every state, hence after every after_task and between any two
\* lifecycle calls, the exemplar identifiers stored over all classes number
\* at most memory_size.
MemoryBudget == TotalExamplars <= k

\* C1 case: the second task is complete and the memory is exactly full
MemoryBudgetWitness ==
    /\ pc = "eval" /\ task = 1 /\ n_classes = 2 * task_size
    /\ k > 0 /\ TotalExamplars = k

\* C2: once after_task of a task t > 0 has reduced the memory, every class
\* known before task t holds at most memory_size // n_classes exemplars,
\* n_classes being the count grown by before_task of task t.
ReducedToQuota ==
    (task > 0 /\ pc \in {"after_old", "after_new", "eval", "next"}) =>
        \A c \in 0..(task * task_size - 1) :
            /\ c \in DOMAIN examplars
            /\ Len(examplars[c]) <= k \div n_classes

\* C2 case: reduction has just cut a full exemplar set down to a smaller quota
ReducedToQuotaWitness ==
    /\ pc = "after_old" /\ task = 1 /\ class_idx = 0
    /\ PoolSize <= k \div (n_classes - task_size)
    /\ k \div n_classes < PoolSize
    /\ Len(examplars[0]) = k \div n_classes
    /\ Len(examplars[0]) > 0

\* C3: the exemplar set herding builds for a class of the current task has
\* exactly min(m, n) identifiers (n candidates, m = memory_size // n_classes),
\* none repeated, all from the candidate pool of that class.
HerdingSelectsMinMN ==
    \A c \in BuiltNow :
        /\ Len(examplars[c]) = Min(k \div n_classes, PoolSize)
        /\ NoRepeat(examplars[c])
        /\ Range(examplars[c]) \subseteq Range(Pool(c))

\* C3 cases: herding has cut a pool down to a smaller positive quota (and,
\* second, has stopped early on a pool smaller than the quota)
HerdingSelectsMinMNWitness ==
    /\ pc = "eval"
    /\ 0 < k \div n_classes /\ k \div n_classes < PoolSize
    /\ \A c \in BuiltNow : Len(examplars[c]) = k \div n_classes

HerdingStopsEarlyWitness ==
    /\ pc = "eval"
    /\ k \div n_classes > PoolSize
    /\ \A c \in BuiltNow : Len(examplars[c]) = PoolSize

\* -- herding, step by step (HerdSpec)
HerdPos(id) == CHOOSE j \in DOMAIN herd.idxes : herd.idxes[j] = id
\* running sum of the exemplar features before selection step i
HerdSum(i) ==
    SumSeq([j \in 1..(i - 1) |-> herd.features[HerdPos(herd.ex[j])]])
\* positions not selected before step i
HerdFree(i) ==
    {j \in DOMAIN herd.idxes :
        \A h \in 1..(i - 1) : herd.ex[h] # herd.idxes[j]}
\* the free positions at minimum distance from the class mean at step i
HerdClosest(i) ==
    LET S == HerdSum(i)
        n == Len(herd.features)
        Q == SumSeq([j \in 1..n |->
                 (herd.features[j] + S) * (herd.features[j] + S)])
        cm == Normalize(SumSeq(herd.features))
    IN  {j \in HerdFree(i) : \A l \in HerdFree(i) :
            ~HerdLess(cm, Q, herd.features[l] + S, herd.features[j] + S)}
MinId(S) == CHOOSE x \in S : \A y \in S : x <= y

\* C4 as stated: at every selection step the exemplar chosen is the lowest
\* identifier among the not-yet-selected candidates nearest the class mean.
HerdingTieLowestId ==
    herd.ran =>
        \A i \in 1..Len(herd.ex) :
            herd.ex[i] = MinId({herd.idxes[j] : j \in HerdClosest(i)})

\* C4 amended: the selection has min(m, n) steps and at every step the
\* exemplar chosen is one of the not-yet-selected candidates nearest the
\* class mean.
HerdingSelectsClosest ==
    herd.ran =>
        /\ Len(herd.ex) = Min(herd.quota, Len(herd.idxes))
        /\ \A i \in 1..Len(herd.ex) :
              herd.ex[i] \in {herd.idxes[j] : j \in HerdClosest(i)}

\* C4 case: a tie between two free candidates went to the higher identifier
HerdingSelectsClosestWitness ==
    /\ herd.ran
    /\ \E i \in 1..Len(herd.ex) :
          /\ Cardinality(HerdClosest(i)) >= 2
          /\ herd.ex[i] # MinId({herd.idxes[j] : j \in HerdClosest(i)})

\* a selection that had a strictly farther free candidate to reject
HerdingRejectsFartherWitness ==
    /\ herd.ran
    /\ \E i \in 1..Len(herd.ex) : HerdClosest(i) # HerdFree(i)

\* -- nearest class mean
SqDist(c, q) == (means[c + 1] - q) * (means[c + 1] - q)
AllNaN == \A c \in Classes : means[c + 1] = NaN
NoneNaN == \A c \in Classes : means[c + 1] # NaN

\* C5 as stated: a query equal to the stored mean of class k is predicted k.
SelfMeanPredictsSelf ==
    eval_status = "ok" =>
        \A j \in DOMAIN queries : \A c \in Classes :
            queries[j] = means[c + 1] => ypred[j] = c

\* C5 amended: a query equal to the stored mean of class k is predicted as
\* the lowest class id whose stored mean equals that of k.
SelfMeanPredictsLowestEqual ==
    eval_status = "ok" =>
        \A j \in DOMAIN queries : \A c \in Classes :
            queries[j] = means[c + 1] =>
                /\ means[ypred[j] + 1] = means[c + 1]
                /\ \A b \in 0..(ypred[j] - 1) : means[b + 1] # means[c + 1]

\* C5 case: a query on the mean of a class other than 0, predicted as it
SelfMeanWitness ==
    /\ eval_status = "ok"
    /\ \E j \in DOMAIN queries :
          /\ ypred[j] > 0
          /\ queries[j] = means[ypred[j] + 1]

\* C6: every prediction is a class whose stored mean is at minimum squared
\* distance from the query, and the lowest class id among those at that
\* distance (when every stored mean is NaN all distances are the same NaN).
NearestMeanLowestId ==
    eval_status = "ok" =>
        /\ Len(ypred) = EvalSize
        /\ AllNaN \/ NoneNaN
        /\ \A j \in DOMAIN queries :
              /\ ypred[j] \in Classes
              /\ AllNaN => ypred[j] = 0
              /\ NoneNaN =>
                    /\ \A c \in Classes : SqDist(ypred[j], queries[j])
                                            <= SqDist(c, queries[j])
                    /\ \A c \in 0..(ypred[j] - 1) :
                          SqDist(c, queries[j]) > SqDist(ypred[j], queries[j])

\* C6 case: squared distance 1 to the predicted class and 4 to another,
\* lower-numbered one
NearestMeanWitness ==
    /\ eval_status = "ok"
    /\ NoneNaN
    /\ \E j \in DOMAIN queries :
          /\ ypred[j] > 0
          /\ SqDist(ypred[j], queries[j]) = 1
          /\ SqDist(0, queries[j]) = 4

\* -- loss handling
BadLoss(l) == l \in {"negative", "nan", "posinf"}

\* C7: a batch whose classification or distillation loss is non-finite or
\* negative raises InvalidLossValue and gets no backward pass and no
\* optimizer step.
InvalidLossSignalled ==
    (last_batch.kind # "none"
        /\ (BadLoss(last_batch.clf) \/ BadLoss(last_batch.distil))) =>
        /\ last_batch.signal = "InvalidLossValue"
        /\ ~last_batch.backward
        /\ ~last_batch.step

\* C8: growing the head at the start of a task t > 0 gives it n_classes rows,
\* the first old_n equal to the rows of the previous head, the task_size new
\* ones freshly drawn.
HeadGrowthKeepsOldRows ==
    [][(pc = "before" /\ task > 0 /\ pc' = "train") =>
         /\ n_classes' = n_classes + task_size
         /\ Len(classifier') = n_classes'
         /\ \A c \in 1..n_classes : classifier'[c] = classifier[c]
         /\ \A c \in (n_classes + 1)..n_classes' :
               classifier'[c] = <<task, 0>>]_vars

\* C8 case: a grown head whose old rows have been trained
HeadGrowthWitness ==
    /\ pc = "train" /\ epoch = 0 /\ task > 0
    /\ classifier[1][2] > 0
    /\ classifier[n_classes] = <<task, 0>>

\* C9: on task 0 every batch has a distillation loss of exactly 0, reads no
\* prediction cache and takes its classification loss over all columns.
FirstTaskNoDistillation ==
    (last_batch.kind # "none" /\ task = 0) =>
        /\ last_batch.distil = "zero"
        /\ last_batch.cache = "none"
        /\ last_batch.clf_cols = 0..(n_classes - 1)

\* C9 case: a training batch of task 0 has been processed
FirstTaskNoDistillationWitness ==
    /\ last_batch.kind = "train" /\ task = 0
    /\ last_batch.clf_cols = 0..(task_size - 1)

\* C10: an eval_task call made while no class means exist raises the
\* ValueError, returns no predictions and leaves exemplars, means and
\* n_classes as they were.
EvalWithoutMeansFails ==
    [][(eval_status' # "not_run" /\ means = None) =>
         /\ eval_status' = "ValueError_no_means"
         /\ ypred' = << >>
         /\ UNCHANGED <<examplars, means, n_classes>>]_vars

\* C10 case: eval_task was called before the first after_task and failed
EvalWithoutMeansWitness ==
    /\ eval_status = "ValueError_no_means"
    /\ means = None
    /\ task = 0

\* C11: an eval_task call made while the number of stored class means
\* differs from n_classes raises the ValueError and returns no predictions.
EvalCountMismatchFails ==
    [][(eval_status' # "not_run" /\ means # None /\ Len(means) # n_classes) =>
         /\ eval_status' = "ValueError_inconsistent"
         /\ ypred' = << >>
         /\ queries' = << >>]_vars

\* C11 case: eval_task was called in a task t > 0 after before_task had
\* grown n_classes and before after_task rebuilt the means, and failed
EvalCountMismatchWitness ==
    /\ eval_status = "ValueError_inconsistent"
    /\ pc = "train" /\ task > 0
    /\ Len(means) = n_classes - task_size

\* -- lifecycle order
\* after_task has completed for every class counted by n_classes
MemoryComplete ==
    /\ means # None /\ Len(means) = n_classes
    /\ DOMAIN examplars = 0..(n_classes - 1)
\* the memory holds the classes of the tasks before the current one only
MemoryOfEarlierTasks ==
    /\ DOMAIN examplars = 0..(task * task_size - 1)
    /\ IF task = 0 THEN means = None ELSE Len(means) = task * task_size
\* the rows of the current task have had every training step of the task
TrainedThisTask ==
    classifier[n_classes] = <<IF task = 0 THEN -1 ELSE task, MaxEpochs>>

InAfterTask == pc \in {"after", "after_old", "after_new"}

\* C13: a step that is not a step of after_task, be it before_task with its
\* prediction caching and head growth, a batch of train_task, eval_task or
\* get_memory_indexes, leaves the exemplar sets and the class means as
\* they are.
MemoryWrittenByAfterTaskOnly ==
    [][~InAfterTask => UNCHANGED <<examplars, examplars_keys, means>>]_vars

\* C13 case: on a memory that holds exemplars and means, before_task has
\* grown the head and train_task has run its batches
MemoryWrittenByAfterTaskOnlyWitness ==
    /\ pc = "after" /\ task = 1
    /\ means # None /\ TotalExamplars > 0
    /\ Len(classifier) = 2 * task_size
    /\ last_batch.kind # "none"

\* -- the read accessor
\* the exemplars of the classes 0..c, by ascending class id
RECURSIVE FlatUpTo(_)
FlatUpTo(c) == IF c < 0 THEN << >> ELSE FlatUpTo(c - 1) \o examplars[c]

\* C14: called after completed tasks, get_memory_indexes returns the stored
\* identifiers of the classes 0..n_classes-1, class after class by ascending
\* class id and inside a class in the stored (selection) order; there are as
\* many as the exemplar sets hold together.
AccessorReturnsMemory ==
    memory_indexes.called =>
        /\ DOMAIN examplars = 0..(n_classes - 1)
        /\ memory_indexes.value = FlatUpTo(n_classes - 1)
        /\ Len(memory_indexes.value) = TotalExamplars

\* C14 case: two tasks are complete and two classes hold two exemplars each
AccessorReturnsMemoryWitness ==
    /\ memory_indexes.called
    /\ task = 1
    /\ Len(examplars[0]) >= 2 /\ Len(examplars[1]) >= 2
    /\ examplars[0][1] > examplars[0][2]

\* -- head growth by add_new_weights (GrowthSpec)
KnownTypes == {"imprinted", "embedding", "basic"}
GrowthOf(type) ==
    IF type = "imprinted" THEN "add_imprinted_classes"
    ELSE IF type = "embedding" THEN "add_custom_weights"
    ELSE "add_classes"

\* C15: add_new_weights with a type other than imprinted, embedding and
\* basic raises an error and calls no growth operation of the network; with
\* one of the three it raises nothing and calls the growth operation of that
\* type, once, and no other.
UnknownWeightTypeFails ==
    growth.ran =>
        IF growth.weight_generation.type \in KnownTypes
        THEN /\ growth.error = "none"
             /\ Len(growth.calls) = 1
             /\ growth.calls[1].op = GrowthOf(growth.weight_generation.type)
        ELSE /\ growth.error = "ValueError"
             /\ growth.calls = << >>

\* C15 case: a type that differs from a known one by its case only was
\* refused
UnknownWeightTypeFailsWitness ==
    /\ growth.ran
    /\ growth.weight_generation.type = "Basic"
    /\ growth.error = "ValueError"

\* -- exemplar sets over the tasks
IsPrefix(s, t) == Len(s) <= Len(t) /\ s = SubSeq(t, 1, Len(s))

\* C16: no step reorders, replaces or extends the exemplar set of a class
\* that has one: what a step leaves is a prefix of what it found, so the set
\* of a class stays a prefix of its herding selection and never grows; the
\* reduction of after_task leaves exactly the first m entries.
ExemplarsOnlyShrinkToPrefix ==
    [][\A c \in DOMAIN examplars :
          /\ c \in DOMAIN examplars'
          /\ IsPrefix(examplars'[c], examplars[c])
          /\ (pc = "after" /\ pc' # "after") =>
                 Len(examplars'[c]) = Min(Len(examplars[c]), k \div n_classes)
          /\ pc \in {"after_old", "after_new"} =>
                 examplars'[c] = examplars[c]]_vars

\* C16 case: after_task of the second task is complete and has left class 0
\* one exemplar, not the lowest identifier, of the several herding selected
ExemplarsOnlyShrinkToPrefixWitness ==
    /\ pc = "eval" /\ task = 1
    /\ Len(examplars[0]) = 1
    /\ examplars[0][1] = Pool(0)[PoolSize]
    /\ Len(examplars[0]) < Min(PoolSize, k \div task_size)

\* -- class count
\* C17: the head has n_classes outputs in every state; the step of
\* before_task leaves n_classes as it is on task 0 and adds task_size to it
\* on a task t > 0; no other step changes n_classes; neither n_classes nor
\* the number of outputs ever decreases.
ClassCountMonotone ==
    [][/\ Len(classifier) = n_classes /\ Len(classifier') = n_classes'
       /\ n_classes' >= n_classes
       /\ Len(classifier') >= Len(classifier)
       /\ IF pc = "before" /\ pc' = "train"
          THEN n_classes' = IF task = 0 THEN n_classes
                            ELSE n_classes + task_size
          ELSE n_classes' = n_classes]_vars

\* C17 case: before_task of the second task has grown a head of two outputs
\* to four
ClassCountMonotoneWitness ==
    /\ pc = "train" /\ task = 1 /\ task_size = 2
    /\ n_classes = 4 /\ Len(classifier) = 4

\* -- prediction cache
\* the sigmoid outputs of the head as it is in the current state
CacheOfCurrentHead == [c \in 1..n_classes |-> <<"sigmoid", classifier[c]>>]

\* C18: before_task of a task t > 0 sets the prediction cache (and, given
\* a validation loader, the validation cache) to the outputs of the head
\* as it is before the growth, one column per class known before task t;
\* before_task of task 0 leaves no cache; no other step writes either
\* cache; a batch that reads a cache reads one built for its own task.
CacheBuiltOncePerTask ==
    [][/\ IF pc = "before" /\ pc' = "train"
          THEN IF task = 0
               THEN previous_preds' = None
               ELSE /\ previous_preds' = CacheOfCurrentHead
                    /\ Len(previous_preds') = task * task_size
                    /\ val_loader' => previous_preds_val' = CacheOfCurrentHead
          ELSE UNCHANGED <<previous_preds, previous_preds_val>>
       /\ task = 0 => previous_preds = None
       /\ last_batch'.cache = "train" =>
             Len(previous_preds) = task * task_size
       /\ last_batch'.cache = "val" =>
             Len(previous_preds_val) = task * task_size]_vars

\* C18 case: the second task is trained and the cache still holds the
\* outputs the head had before the growth and the training of that task
CacheBuiltOncePerTaskWitness ==
    /\ pc = "after" /\ task = 1
    /\ previous_preds # None
    /\ Len(previous_preds) = task_size /\ Len(classifier) = 2 * task_size
    /\ previous_preds[1] = <<"sigmoid", <<-1, MaxEpochs>>>>
    /\ classifier[1] = <<-1, 2 * MaxEpochs>>

\* -- the memory a completed after_task leaves
\* C19: the rebuild appends the mean of class c as entry c of its list, for
\* c = 0, 1, ...; when after_task completes, the stored means are that
\* list, of n_classes entries, and exemplar sets exist for the class ids
\* 0..n_classes-1 and no other; the eval_task that follows raises neither
\* ValueError.
AfterTaskLeavesConsistentMemory ==
    [][/\ means_acc' # means_acc =>
            \/ means_acc' = << >>
            \/ /\ Len(means_acc) = class_idx
               /\ Len(means_acc') = class_idx + 1
               /\ SubSeq(means_acc', 1, class_idx) = means_acc
       /\ (pc = "after_new" /\ pc' = "eval") =>
            /\ means' = means_acc'
            /\ Len(means') = n_classes
            /\ DOMAIN examplars' = 0..(n_classes - 1)
            /\ examplars_keys' = [c \in 1..n_classes |-> c - 1]
       /\ (pc = "eval" /\ eval_status' # "not_run") =>
            eval_status' = "ok"]_vars

\* C19 case: after_task of the second task is complete, with four classes
AfterTaskLeavesConsistentMemoryWitness ==
    /\ pc = "eval" /\ task = 1 /\ task_size = 2
    /\ Len(means) = 4
    /\ DOMAIN examplars = 0..3
    /\ \A c \in 0..3 : Len(examplars[c]) = 1

\* -- empty exemplar sets
\* C20: every class has PoolSize >= 1 candidates; once an after_task is
\* complete every class seen so far holds at least one exemplar, the loop
\* over the classes of earlier tasks never comes to extract the features of
\* an empty exemplar set, and no stored mean is the NaN of a division by an
\* exemplar count of zero.
EveryClassKeepsAnExemplar ==
    /\ (pc \in {"eval", "next"} /\ task >= 0) =>
           \A c \in Classes : c \in DOMAIN examplars /\ examplars[c] # << >>
    /\ pc = "after_old" => examplars[class_idx] # << >>
    /\ means # None => \A j \in DOMAIN means : means[j] # NaN

====
